---- MODULE Spec2Model ----
(***************************************************************************)
(* FileDialogService (vs/workbench/services/dialogs/browser/               *)
(* fileDialogService.ts): the browser adapter that maps the editor's       *)
(* open/save dialog requests onto the native file pickers.                 *)
(*                                                                         *)
(* A call of a public operation is a JavaScript async function: the code   *)
(* between two awaits runs atomically (one action), and at an await the    *)
(* call is suspended while other calls may run.  Every call has its own    *)
(* locals (schema, options, handle, uuid); the calls share the uuid        *)
(* generator, the file-system provider and the opener service.             *)
(*                                                                         *)
(* `await this.default...Path(schema)` reads and writes nothing but the    *)
(* call's own options object, so the entry actions run through it up to    *)
(* the next await (the simplified implementation or the native picker).    *)
(***************************************************************************)
EXTENDS Integers, Sequences, FiniteSets, TLC

VARIABLES calls, nextUuid, registered, opened, filters, types, typesPc

vars == <<calls, nextUuid, registered, opened, filters, types, typesPc>>

(* ------------------------------ bounds -------------------------------- *)

\* number of calls of public operations in one run (all may be in flight at once)
MaxCalls == 2
\* length of the FileFilter[] handed to getFilePickerTypes
MaxFilters == 2

Calls == 1..MaxCalls

(* ------------------------------ values -------------------------------- *)

Schemas_file == "file"
Schemas_userData == "vscode-userdata"
Schemas_tmp == "tmp"
Schemas_vscodeRemote == "vscode-remote"

\* what getFileSystemSchema(options) may resolve to
Schemes == {Schemas_file, Schemas_userData, Schemas_tmp, Schemas_vscodeRemote}

\* options.defaultUri as the caller passes it: absent or some URI
DefaultUris == {"absent", "given"}

\* URI.from({ scheme, path: `/${uuid}/${name}` })
URI_from(scheme, uuid, name) == [scheme |-> scheme, path |-> <<uuid, name>>]

\* a FileSystemHandle: handle.kind, handle.name (the empty string is a string too);
\* `by` tells the picker dialogs apart: the call whose dialog produced the handle
Handle(kind, name, by) == [kind |-> kind, name |-> name, by |-> by]

\* what window.showOpenFilePicker may resolve with, for the call `by`
OpenFilePickerResults(by) ==
    { <<>>,
      <<Handle("file", "a", by)>>,
      <<Handle("file", "", by)>>,
      <<Handle("file", "a", by), Handle("file", "b", by)>> }

\* what window.showSaveFilePicker may resolve with
SaveFilePickerResults(by) == { Handle("file", "a", by), Handle("file", "", by) }

\* what window.showDirectoryPicker may resolve with
DirectoryPickerResults(by) == { Handle("directory", "a", by), Handle("directory", "", by) }

\* what a simplified implementation may resolve with
SimplifiedResults == {"undefined", "remoteUri"}

Undefined == [kind |-> "undefined", uris |-> <<>>, value |-> "undefined"]

NewCall ==
    [op |-> "none", pc |-> "idle", schema |-> "none",
     defaultUriIn |-> "absent", defaultUri |-> "absent",
     availableFileSystems |-> "given",
     canSelectFiles |-> FALSE,
     picker |-> "none", picked |-> <<>>, uuid |-> 0,
     simplified |-> "none",
     error |-> "none", result |-> Undefined]

(* ----------------------- FileDialogService ---------------------------- *)

shouldUseSimplified_remote(scheme) ==
    scheme \notin {Schemas_file, Schemas_userData, Schemas_tmp, Schemas_vscodeRemote}

\* private shouldUseSimplified(scheme)
shouldUseSimplified(scheme) ==
    scheme \notin {Schemas_file, Schemas_userData, Schemas_tmp}

\* generateUuid(): the next value of a generator that never repeats
generateUuid == nextUuid

\* `return this.<op>Simplified(schema, options...)`: the call now waits for it
Simplified(c, impl) == [c EXCEPT !.simplified = impl, !.pc = "awaitSimplified"]

\* `throw new Error(...)` or a rejected await: the call's promise rejects
Throw(c, err) == [c EXCEPT !.pc = "threw", !.error = err]

\* `return value`
Return(c, value) == [c EXCEPT !.pc = "returned", !.result = value]

\* `await window.show...Picker(...)`: the dialog is up, the call is suspended
ShowPicker(c, picker) == [c EXCEPT !.picker = picker, !.pc = "awaitPicker"]

\* the value of `await this.defaultFilePath / defaultFolderPath / defaultWorkspacePath`
DefaultPath(op) ==
    CASE op = "pickFolderAndOpen" -> "defaultFolderPath"
      [] op = "pickWorkspaceAndOpen" -> "defaultWorkspacePath"
      [] OTHER -> "defaultFilePath"

\* The calls of a run are interchangeable, so they are numbered by their arguments
\* (operation, scheme, options) instead of by the time they are made: call i may be
\* made at any moment, with arguments that keep the numbering sorted.
OpRank(op) ==
    CASE op = "pickFileFolderAndOpen" -> 1
      [] op = "pickFileAndOpen" -> 2
      [] op = "pickFolderAndOpen" -> 3
      [] op = "pickWorkspaceAndOpen" -> 4
      [] op = "pickFileToSave" -> 5
      [] op = "showSaveDialog" -> 6
      [] op = "showOpenDialog" -> 7

SchemeRank(scheme) ==
    CASE scheme = Schemas_file -> 0
      [] scheme = Schemas_userData -> 1
      [] scheme = Schemas_tmp -> 2
      [] scheme = Schemas_vscodeRemote -> 3

ArgRank(c) ==
    OpRank(c.op) * 16 + SchemeRank(c.schema) * 4
      + (IF c.defaultUriIn = "given" THEN 2 ELSE 0) + (IF c.canSelectFiles THEN 1 ELSE 0)

\* call i has not been made yet
Idle(i) == calls[i].pc = "idle"

\* making call i with the arguments of c keeps the numbering sorted
Sorted(i, c) ==
    \A j \in Calls :
        calls[j].pc # "idle" =>
            /\ j < i => ArgRank(calls[j]) <= ArgRank(c)
            /\ j > i => ArgRank(calls[j]) >= ArgRank(c)

Set(i, c) == calls' = [calls EXCEPT ![i] = c]

FillDefaultUri_always(c) == [c EXCEPT !.defaultUri = DefaultPath(c.op)]

\* `if (!options.defaultUri) { options.defaultUri = await this.default...Path(schema); }`
FillDefaultUri(c) ==
    IF c.defaultUri = "absent" THEN [c EXCEPT !.defaultUri = DefaultPath(c.op)] ELSE c

\* the operation is called with these arguments; schema = getFileSystemSchema(options)
Enter(op, schema, defaultUri) ==
    [NewCall EXCEPT !.op = op, !.schema = schema,
                    !.defaultUriIn = defaultUri, !.defaultUri = defaultUri]

\* this.fileSystemProvider.registerFileHandle / registerDirectoryHandle (uuid, handle),
\* recorded per calling operation in the order the provider receives them
Register(i, fn, uuid, handle) ==
    registered' = [registered EXCEPT ![i] =
                      Append(@, [fn |-> fn, uuid |-> uuid, handle |-> handle])]

OnlyCalls == UNCHANGED <<nextUuid, registered, opened, filters, types, typesPc>>

pickFileFolderAndOpen(i) ==
    /\ Idle(i)
    /\ \E schema \in Schemes, defaultUri \in DefaultUris :
          LET c == FillDefaultUri(Enter("pickFileFolderAndOpen", schema, defaultUri))
          IN  /\ Sorted(i, c)
              /\ IF shouldUseSimplified(schema)
                 THEN Set(i, Simplified(c, "pickFileFolderAndOpenSimplified"))
                 ELSE Set(i, Throw(c, "pickFolderAndOpen"))
    /\ OnlyCalls

pickFileAndOpen_throws(i) ==
    /\ Idle(i)
    /\ \E schema \in Schemes, defaultUri \in DefaultUris :
          LET c == FillDefaultUri(Enter("pickFileAndOpen", schema, defaultUri))
          IN  /\ Sorted(i, c)
              /\ IF shouldUseSimplified(schema)
                 THEN Set(i, Simplified(c, "pickFileAndOpenSimplified"))
                 ELSE Set(i, Throw(c, "pickFolderAndOpen"))
    /\ OnlyCalls

\* lines 38-49, up to `await window.showOpenFilePicker`
pickFileAndOpen(i) ==
    /\ Idle(i)
    /\ \E schema \in Schemes, defaultUri \in DefaultUris :
          LET c == FillDefaultUri(Enter("pickFileAndOpen", schema, defaultUri))
          IN  /\ Sorted(i, c)
              /\ IF shouldUseSimplified(schema)
                 THEN Set(i, Simplified(c, "pickFileAndOpenSimplified"))
                 ELSE Set(i, ShowPicker(c, "showOpenFilePicker"))
    /\ OnlyCalls

pickFolderAndOpen(i) ==
    /\ Idle(i)
    /\ \E schema \in Schemes, defaultUri \in DefaultUris :
          LET c == FillDefaultUri(Enter("pickFolderAndOpen", schema, defaultUri))
          IN  /\ Sorted(i, c)
              /\ IF shouldUseSimplified(schema)
                 THEN Set(i, Simplified(c, "pickFolderAndOpenSimplified"))
                 ELSE Set(i, Throw(c, "pickFolderAndOpen"))
    /\ OnlyCalls

\* line 73 assigns options.availableFileSystems before anything else
pickWorkspaceAndOpen(i) ==
    /\ Idle(i)
    /\ \E schema \in Schemes, defaultUri \in DefaultUris :
          LET c == FillDefaultUri(
                     [Enter("pickWorkspaceAndOpen", schema, defaultUri)
                        EXCEPT !.availableFileSystems = "getWorkspaceAvailableFileSystems"])
          IN  /\ Sorted(i, c)
              /\ IF shouldUseSimplified(schema)
                 THEN Set(i, Simplified(c, "pickWorkspaceAndOpenSimplified"))
                 ELSE Set(i, Throw(c, "pickWorkspaceAndOpen"))
    /\ OnlyCalls

\* the simplified implementation resolves and the operation returns its result
simplifiedResolved(i) ==
    /\ calls[i].pc = "awaitSimplified"
    /\ \E r \in SimplifiedResults :
          Set(i, Return(calls[i], [kind |-> "simplified", uris |-> <<>>, value |-> r]))
    /\ OnlyCalls

pickerRejected_swallowed(i) ==
    /\ calls[i].pc = "awaitPicker"
    /\ Set(i, Return([calls[i] EXCEPT !.error = "pickerRejected"], Undefined))
    /\ OnlyCalls

\* the user cancels the dialog or the browser refuses it: the awaited picker rejects,
\* and no operation catches the rejection
pickerRejected(i) ==
    /\ calls[i].pc = "awaitPicker"
    /\ Set(i, Throw(calls[i], "pickerRejected"))
    /\ OnlyCalls

pickFileAndOpen_picked_unregistered(i) ==
    /\ calls[i].pc = "awaitPicker"
    /\ calls[i].op = "pickFileAndOpen"
    /\ \E hs \in OpenFilePickerResults(i) :
          LET uuid == generateUuid
              c == [calls[i] EXCEPT !.picked = hs, !.uuid = uuid]
          IN  /\ nextUuid' = nextUuid + 1
              /\ IF Len(hs) = 0
                 THEN /\ Set(i, Throw(c, "TypeError"))
                      /\ UNCHANGED <<registered, opened>>
                 ELSE /\ UNCHANGED registered
                      /\ opened' = [opened EXCEPT ![i] =
                                      Append(@, URI_from(Schemas_file, uuid, hs[1].name))]
                      /\ Set(i, [c EXCEPT !.pc = "awaitOpen"])
    /\ UNCHANGED <<filters, types, typesPc>>

\* lines 49-55: `const [handle] = await window.showOpenFilePicker(...)` resolves
pickFileAndOpen_picked(i) ==
    /\ calls[i].pc = "awaitPicker"
    /\ calls[i].op = "pickFileAndOpen"
    /\ \E hs \in OpenFilePickerResults(i) :
          LET uuid == generateUuid
              c == [calls[i] EXCEPT !.picked = hs, !.uuid = uuid]
          IN  /\ nextUuid' = nextUuid + 1
              /\ IF Len(hs) = 0
                 THEN \* handle is undefined: `handle.name` throws a TypeError
                      /\ Set(i, Throw(c, "TypeError"))
                      /\ UNCHANGED <<registered, opened>>
                 ELSE /\ Register(i, "registerFileHandle", uuid, hs[1])
                      /\ opened' = [opened EXCEPT ![i] =
                                      Append(@, URI_from(Schemas_file, uuid, hs[1].name))]
                      /\ Set(i, [c EXCEPT !.pc = "awaitOpen"])
    /\ UNCHANGED <<filters, types, typesPc>>

\* lines 55-56: the awaited openerService.open settles; the operation returns nothing,
\* or rejects as the opener did
pickFileAndOpen_opened(i) ==
    /\ calls[i].pc = "awaitOpen"
    /\ \/ Set(i, Return(calls[i], Undefined))
       \/ Set(i, Throw(calls[i], "openerRejected"))
    /\ OnlyCalls

\* lines 87-95, up to `await window.showSaveFilePicker`
pickFileToSave(i) ==
    /\ Idle(i)
    /\ \E schema \in Schemes :
          LET c == Enter("pickFileToSave", schema, "given")
          IN  /\ Sorted(i, c)
              /\ IF shouldUseSimplified(schema)
                 THEN Set(i, Simplified(c, "pickFileToSaveSimplified"))
                 ELSE Set(i, ShowPicker(c, "showSaveFilePicker"))
    /\ OnlyCalls

\* lines 118-125, up to `await window.showSaveFilePicker`
showSaveDialog(i) ==
    /\ Idle(i)
    /\ \E schema \in Schemes :
          LET c == Enter("showSaveDialog", schema, "given")
          IN  /\ Sorted(i, c)
              /\ IF shouldUseSimplified(schema)
                 THEN Set(i, Simplified(c, "showSaveDialogSimplified"))
                 ELSE Set(i, ShowPicker(c, "showSaveFilePicker"))
    /\ OnlyCalls

SavePicked_requestedScheme(i, handle) ==
    LET uuid == generateUuid
        uri == URI_from(calls[i].schema, uuid, handle.name)
    IN  /\ nextUuid' = nextUuid + 1
        /\ Register(i, "registerFileHandle", uuid, handle)
        /\ Set(i, Return([calls[i] EXCEPT !.picked = <<handle>>, !.uuid = uuid],
                         [kind |-> "uri", uris |-> <<uri>>, value |-> "uri"]))
        /\ UNCHANGED <<opened, filters, types, typesPc>>

\* lines 95-101 and 125-131: `const handle = await window.showSaveFilePicker(...)` resolves
SavePicked(i, handle) ==
    LET uuid == generateUuid
        uri == URI_from(Schemas_file, uuid, handle.name)
    IN  /\ nextUuid' = nextUuid + 1
        /\ Register(i, "registerFileHandle", uuid, handle)
        /\ Set(i, Return([calls[i] EXCEPT !.picked = <<handle>>, !.uuid = uuid],
                         [kind |-> "uri", uris |-> <<uri>>, value |-> "uri"]))
        /\ UNCHANGED <<opened, filters, types, typesPc>>

pickFileToSave_picked(i) ==
    /\ calls[i].pc = "awaitPicker"
    /\ calls[i].op = "pickFileToSave"
    /\ \E handle \in SaveFilePickerResults(i) : SavePicked(i, handle)

showSaveDialog_picked(i) ==
    /\ calls[i].pc = "awaitPicker"
    /\ calls[i].op = "showSaveDialog"
    /\ \E handle \in SaveFilePickerResults(i) : SavePicked(i, handle)

\* lines 134-150: the identifier is generated before the picker is shown
showOpenDialog(i) ==
    /\ Idle(i)
    /\ \E schema \in Schemes, canSelectFiles \in BOOLEAN :
          LET c == [Enter("showOpenDialog", schema, "absent")
                      EXCEPT !.canSelectFiles = canSelectFiles]
          IN  /\ Sorted(i, c)
              /\ IF shouldUseSimplified(schema)
                 THEN /\ Set(i, Simplified(c, "showOpenDialogSimplified"))
                      /\ UNCHANGED nextUuid
                 ELSE /\ Set(i, ShowPicker([c EXCEPT !.uuid = generateUuid],
                                           IF canSelectFiles THEN "showOpenFilePicker"
                                                             ELSE "showDirectoryPicker"))
                      /\ nextUuid' = nextUuid + 1
    /\ UNCHANGED <<registered, opened, filters, types, typesPc>>

\* lines 154-158: `if (handleName)` is false for undefined and for the empty string
showOpenDialog_result(uuid, handleName) ==
    IF handleName # "undefined" /\ handleName # ""
    THEN [kind |-> "uris", uris |-> <<URI_from(Schemas_file, uuid, handleName)>>,
          value |-> "uris"]
    ELSE Undefined

showOpenDialog_filePicked_all(i) ==
    /\ calls[i].pc = "awaitPicker"
    /\ calls[i].op = "showOpenDialog"
    /\ calls[i].picker = "showOpenFilePicker"
    /\ \E hs \in OpenFilePickerResults(i) :
          LET c == [calls[i] EXCEPT !.picked = hs]
          IN  IF Len(hs) >= 1
              THEN /\ registered' = [registered EXCEPT ![i] =
                         [k \in 1..Len(hs) |->
                            [fn |-> "registerFileHandle", uuid |-> c.uuid, handle |-> hs[k]]]]
                   /\ Set(i, Return(c, showOpenDialog_result(c.uuid, hs[1].name)))
              ELSE /\ UNCHANGED registered
                   /\ Set(i, Return(c, showOpenDialog_result(c.uuid, "undefined")))
    /\ UNCHANGED <<nextUuid, opened, filters, types, typesPc>>

\* lines 144-148 and 154-158: the file picker resolves
showOpenDialog_filePicked(i) ==
    /\ calls[i].pc = "awaitPicker"
    /\ calls[i].op = "showOpenDialog"
    /\ calls[i].picker = "showOpenFilePicker"
    /\ \E hs \in OpenFilePickerResults(i) :
          LET c == [calls[i] EXCEPT !.picked = hs]
          IN  IF Len(hs) = 1
              THEN /\ Register(i, "registerFileHandle", c.uuid, hs[1])
                   /\ Set(i, Return(c, showOpenDialog_result(c.uuid, hs[1].name)))
              ELSE /\ UNCHANGED registered
                   /\ Set(i, Return(c, showOpenDialog_result(c.uuid, "undefined")))
    /\ UNCHANGED <<nextUuid, opened, filters, types, typesPc>>

showOpenDialog_directoryPicked_sharedUuid(i) ==
    /\ calls[i].pc = "awaitPicker"
    /\ calls[i].op = "showOpenDialog"
    /\ calls[i].picker = "showDirectoryPicker"
    /\ \E handle \in DirectoryPickerResults(i) :
          LET c == [calls[i] EXCEPT !.picked = <<handle>>]
          IN  /\ Register(i, "registerDirectoryHandle", nextUuid - 1, handle)
              /\ Set(i, Return(c, showOpenDialog_result(nextUuid - 1, handle.name)))
    /\ UNCHANGED <<nextUuid, opened, filters, types, typesPc>>

\* lines 150-158: the directory picker resolves
showOpenDialog_directoryPicked(i) ==
    /\ calls[i].pc = "awaitPicker"
    /\ calls[i].op = "showOpenDialog"
    /\ calls[i].picker = "showDirectoryPicker"
    /\ \E handle \in DirectoryPickerResults(i) :
          LET c == [calls[i] EXCEPT !.picked = <<handle>>]
          IN  /\ Register(i, "registerDirectoryHandle", c.uuid, handle)
              /\ Set(i, Return(c, showOpenDialog_result(c.uuid, handle.name)))
    /\ UNCHANGED <<nextUuid, opened, filters, types, typesPc>>

Init ==
    /\ calls = [i \in Calls |-> NewCall]
    /\ nextUuid = 1
    /\ registered = [i \in Calls |-> <<>>]
    /\ opened = [i \in Calls |-> <<>>]
    /\ filters = [defined |-> FALSE, list |-> <<>>]
    /\ types = [defined |-> FALSE, list |-> <<>>]
    /\ typesPc = "off"

Next ==
    \E i \in Calls :
        \/ pickFileFolderAndOpen(i)
        \/ pickFileAndOpen(i)
        \/ pickFolderAndOpen(i)
        \/ pickWorkspaceAndOpen(i)
        \/ pickFileToSave(i)
        \/ showSaveDialog(i)
        \/ showOpenDialog(i)
        \/ simplifiedResolved(i)
        \/ pickerRejected(i)
        \/ pickFileAndOpen_picked(i)
        \/ pickFileAndOpen_opened(i)
        \/ pickFileToSave_picked(i)
        \/ showSaveDialog_picked(i)
        \/ showOpenDialog_filePicked(i)
        \/ showOpenDialog_directoryPicked(i)

Spec == Init /\ [][Next]_vars

(* --------------------------- getFilePickerTypes ------------------------ *)

\* extension strings, as sequences of characters
Str_empty == <<>>
Str_star == <<"*">>
Str_ts == <<"t", "s">>
Str_dot_ts == <<".", "t", "s">>
Str_dash == <<"c", "-", "d">>
Str_underscore == <<"e", "_", "f">>
Str_glob == <<"*", ".", "g">>

\* FileFilter.extensions
ExtensionLists ==
    { <<>>, <<Str_star>>, <<Str_empty>>, <<Str_ts>>, <<Str_dot_ts>>, <<Str_dash>>,
      <<Str_underscore>>, <<Str_ts, Str_star>>, <<Str_empty, Str_ts>>,
      <<Str_ts, Str_dot_ts>>, <<Str_glob, Str_dash>> }

\* FileFilter { name, extensions }
FileFilters == [name : {"Source", "All"}, extensions : ExtensionLists]

SeqsUpTo(S, n) == UNION { [1..k -> S] : k \in 0..n }

\* the `filters?` argument: undefined or a FileFilter[]
FilterInputs ==
    {[defined |-> FALSE, list |-> <<>>]} \cup
    { [defined |-> TRUE, list |-> l] : l \in SeqsUpTo(FileFilters, MaxFilters) }

\* String.prototype.indexOf(ch): zero-based index of the first occurrence, or -1
indexOf(str, ch) ==
    IF \E k \in 1..Len(str) : str[k] = ch
    THEN (CHOOSE k \in 1..Len(str) : str[k] = ch /\ \A m \in 1..(k - 1) : str[m] # ch) - 1
    ELSE -1

\* String.prototype.startsWith(ch)
startsWith(str, ch) == Len(str) >= 1 /\ str[1] = ch

\* the predicate of filters.filter(...), line 106
keepFilter(filter) ==
    ~ ( Len(filter.extensions) = 1
        /\ (filter.extensions[1] = Str_star \/ filter.extensions[1] = Str_empty) )

\* the predicate of filter.extensions.filter(...), line 109
keepExtension(ext) ==
    indexOf(ext, "-") < 0 /\ indexOf(ext, "*") < 0 /\ indexOf(ext, "_") < 0

dotted_asIs(ext) == ext

\* ext.startsWith('.') ? ext : `.${ext}`, line 110
dotted(ext) == IF startsWith(ext, ".") THEN ext ELSE <<".">> \o ext

\* `fileName.${filter.extensions[0]}`: the file name whose MIME type (getMediaOrTextMime,
\* or 'text/plain' when there is none) is the one key of the accept record
mimeFileName(extensions) ==
    <<"fileName", ".">> \o (IF Len(extensions) >= 1 THEN extensions[1] ELSE <<"undefined">>)

\* the body of .map(filter => ...), lines 108-114
toAcceptType(filter) ==
    LET extensions == SelectSeq(filter.extensions, keepExtension)
    IN  [description |-> filter.name,
         accept |-> [mimeOf |-> mimeFileName(filter.extensions),
                     extensions |-> [k \in 1..Len(extensions) |-> dotted(extensions[k])]]]

\* private getFilePickerTypes(filters?)
getFilePickerTypes(f) ==
    IF ~ f.defined
    THEN [defined |-> FALSE, list |-> <<>>]
    ELSE LET kept == SelectSeq(f.list, keepFilter)
         IN  [defined |-> TRUE, list |-> [k \in 1..Len(kept) |-> toAcceptType(kept[k])]]

\* the inputs of getFilePickerTypes
InitTypes ==
    /\ calls = [i \in Calls |-> NewCall]
    /\ nextUuid = 1
    /\ registered = [i \in Calls |-> <<>>]
    /\ opened = [i \in Calls |-> <<>>]
    /\ filters \in FilterInputs
    /\ types = [defined |-> FALSE, list |-> <<>>]
    /\ typesPc = "call"

\* `types: this.getFilePickerTypes(options.filters)`, lines 95, 125, 144
callGetFilePickerTypes ==
    /\ typesPc = "call"
    /\ types' = getFilePickerTypes(filters)
    /\ typesPc' = "return"
    /\ UNCHANGED <<calls, nextUuid, registered, opened, filters>>

NextTypes == callGetFilePickerTypes

SpecTypes == InitTypes /\ [][NextTypes]_vars

(* ------------------------------- claims -------------------------------- *)

NativeSchemes == {"file", "vscode-userdata", "tmp"}

Native(c) == c.op # "none" /\ c.schema \in NativeSchemes

SaveOps == {"pickFileToSave", "showSaveDialog"}
FolderOps == {"pickFileFolderAndOpen", "pickFolderAndOpen", "pickWorkspaceAndOpen"}
FileOps == {"pickFileAndOpen", "pickFileToSave", "showSaveDialog", "showOpenDialog"}

FileUri(uuid, name) == [scheme |-> "file", path |-> <<uuid, name>>]

FileReg(uuid, handle) == [fn |-> "registerFileHandle", uuid |-> uuid, handle |-> handle]

\* C1: with a scheme other than file, userData and tmp, each of the seven operations
\* delegates to its own simplified implementation and returns its result; no native
\* picker is invoked, no identifier is generated and no handle is registered.
C1_SimplifiedDelegation ==
    \A i \in Calls :
        LET c == calls[i]
        IN  (c.op # "none" /\ c.schema \notin NativeSchemes) =>
              /\ c.simplified = c.op \o "Simplified"
              /\ c.picker = "none"
              /\ c.picked = <<>>
              /\ c.uuid = 0
              /\ registered[i] = <<>>
              /\ opened[i] = <<>>
              /\ c.pc \in {"awaitSimplified", "returned"}
              /\ c.pc = "returned" =>
                    c.result.kind = "simplified" /\ c.result.value \in SimplifiedResults

C1_Witness ==
    \E i \in Calls :
        /\ calls[i].op = "showOpenDialog"
        /\ calls[i].schema = "vscode-remote"
        /\ calls[i].pc = "returned"
        /\ calls[i].result.value = "remoteUri"

\* C2: pickFileToSave and showSaveDialog with a native scheme, once the save picker has
\* resolved with a handle, have registered exactly that file handle under a fresh
\* identifier and return file:/<identifier>/<handle name>; every URI they return names
\* an identifier registered with the handle picked in that call.
C2_SaveRegistersAndReturns ==
    \A i \in Calls :
        LET c == calls[i]
        IN  (c.op \in SaveOps /\ Native(c)) =>
              /\ (c.picked # <<>> \/ c.result.kind # "undefined" \/ registered[i] # <<>>) =>
                    /\ c.pc = "returned"
                    /\ Len(c.picked) = 1
                    /\ c.uuid > 0
                    /\ registered[i] = <<FileReg(c.uuid, c.picked[1])>>
                    /\ c.result = [kind |-> "uri", value |-> "uri",
                                   uris |-> <<FileUri(c.uuid, c.picked[1].name)>>]
                    /\ \A j \in Calls \ {i} :
                          /\ calls[j].uuid # c.uuid
                          /\ \A k \in 1..Len(registered[j]) : registered[j][k].uuid # c.uuid

C2_Witness ==
    \E i \in Calls :
        /\ calls[i].op = "pickFileToSave"
        /\ calls[i].schema = "vscode-userdata"
        /\ calls[i].pc = "returned"
        /\ calls[i].result.kind = "uri"
        /\ calls[i].result.uris[1].scheme = "file"

\* C3: no two registrations with the provider use the same identifier, and each call
\* generates at most one identifier and makes at most one registration, under it.
C3_UniqueIdentifiers ==
    /\ \A i \in Calls :
          /\ Len(registered[i]) <= 1
          /\ \A k \in 1..Len(registered[i]) :
                registered[i][k].uuid = calls[i].uuid /\ calls[i].uuid > 0
    /\ \A i, j \in Calls :
          \A k \in 1..Len(registered[i]), l \in 1..Len(registered[j]) :
              (<<i, k>> # <<j, l>>) => registered[i][k].uuid # registered[j][l].uuid
    /\ \A i, j \in Calls : (i # j /\ calls[i].uuid # 0) => calls[i].uuid # calls[j].uuid
    /\ nextUuid - 1 = Cardinality({i \in Calls : calls[i].uuid # 0})

C3_Witness ==
    \E i, j \in Calls :
        /\ i # j
        /\ calls[i].error = "pickerRejected" /\ calls[i].uuid # 0
        /\ registered[j] # <<>>
        /\ calls[j].uuid > calls[i].uuid

\* C4 as stated: every operation, with a native scheme, invokes a native picker,
\* registers the resulting handle and returns its URI.
C4_UniformDispatch ==
    \A i \in Calls :
        LET c == calls[i]
        IN  Native(c) =>
              /\ c.picker # "none"
              /\ c.pc = "returned" =>
                    /\ Len(registered[i]) = 1
                    /\ c.result.uris = <<FileUri(c.uuid, registered[i][1].handle.name)>>

\* C4 amended: with a native scheme only pickFileAndOpen, pickFileToSave, showSaveDialog
\* and showOpenDialog invoke a native picker and register the handle it resolves with
\* under a synthetic identifier; pickFileToSave and showSaveDialog return the URI,
\* pickFileAndOpen hands it to the opener and returns nothing; pickFileFolderAndOpen,
\* pickFolderAndOpen and pickWorkspaceAndOpen invoke no picker and fail with an error.
C4_FileOperationsDispatch ==
    \A i \in Calls :
        LET c == calls[i]
            settled == c.pc \in {"awaitOpen", "returned"} \/ c.error = "openerRejected"
        IN  Native(c) =>
              IF c.op \in FolderOps
              THEN c.picker = "none" /\ c.pc = "threw" /\ registered[i] = <<>>
              ELSE /\ c.picker \in {"showOpenFilePicker", "showSaveFilePicker",
                                    "showDirectoryPicker"}
                   /\ (settled /\ c.op \in SaveOps) =>
                         /\ registered[i] = <<FileReg(c.uuid, c.picked[1])>>
                         /\ c.result.uris = <<FileUri(c.uuid, c.picked[1].name)>>
                   /\ (settled /\ c.op = "pickFileAndOpen") =>
                         /\ registered[i] = <<FileReg(c.uuid, c.picked[1])>>
                         /\ opened[i] = <<FileUri(c.uuid, c.picked[1].name)>>
                         /\ c.result = Undefined
                   /\ (settled /\ c.op = "showOpenDialog" /\ Len(c.picked) = 1) =>
                         /\ Len(registered[i]) = 1
                         /\ registered[i][1].uuid = c.uuid
                         /\ registered[i][1].handle = c.picked[1]

C4_Witness ==
    \E i, j \in Calls :
        /\ calls[i].op = "pickFileAndOpen" /\ Native(calls[i])
        /\ calls[i].pc = "returned" /\ registered[i] # <<>>
        /\ calls[j].op = "pickFolderAndOpen" /\ Native(calls[j])
        /\ calls[j].pc = "threw"

\* C5 as stated: showOpenDialog with a native scheme uses the file picker when
\* canSelectFiles is set and the directory picker otherwise; it returns the one-element
\* list [file:/<identifier>/<handle name>] iff it registered a handle under that
\* identifier, and undefined iff it registered nothing.
C5_ShowOpenDialogReturnsWhatItRegisters ==
    \A i \in Calls :
        LET c == calls[i]
        IN  (c.op = "showOpenDialog" /\ Native(c)) =>
              /\ c.picker = IF c.canSelectFiles THEN "showOpenFilePicker"
                                                ELSE "showDirectoryPicker"
              /\ c.pc = "returned" =>
                    /\ (c.result = Undefined) <=> (registered[i] = <<>>)
                    /\ (c.result.kind = "uris") <=> (Len(registered[i]) = 1)
                    /\ c.result.kind = "uris" =>
                          c.result.uris = <<FileUri(registered[i][1].uuid,
                                                    registered[i][1].handle.name)>>

\* C6: pickFileAndOpen registers the picked handle under the fresh identifier before the
\* opener is asked to open file:/<identifier>/<handle name>: whenever the opener has been
\* invoked with a URI, that identifier is registered with that handle; the opener is
\* invoked exactly once per successful pick and never otherwise.
C6_RegisteredBeforeOpened ==
    \A i \in Calls :
        LET c == calls[i]
        IN  /\ Len(opened[i]) =
                  IF c.op = "pickFileAndOpen" /\ Native(c) /\ c.picked # <<>> THEN 1 ELSE 0
            /\ \A k \in 1..Len(opened[i]) :
                  /\ registered[i] = <<FileReg(c.uuid, c.picked[1])>>
                  /\ opened[i][k] = FileUri(c.uuid, c.picked[1].name)
                  /\ c.uuid > 0

C6_Witness ==
    \E i \in Calls :
        /\ calls[i].op = "pickFileAndOpen"
        /\ calls[i].pc = "awaitOpen"
        /\ Len(opened[i]) = 1

\* a URI that call i returns or opens carries i's identifier and its handle's name,
\* and no other call's identifier
OwnUri(i, u) ==
    /\ u.path[1] = calls[i].uuid
    /\ Len(registered[i]) >= 1
    /\ u.path[2] = registered[i][1].handle.name
    /\ \A j \in Calls \ {i} : u.path[1] # calls[j].uuid

\* C7: under any interleaving of calls in flight at once, each call registers only a
\* handle its own picker returned, under the identifier it generated itself; the URI it
\* returns or opens carries that identifier and that handle's name; no call registers,
\* returns or overwrites another call's identifier or handle.
C7_CallsDoNotInterfere ==
    \A i \in Calls :
        LET c == calls[i]
        IN  /\ \A k \in 1..Len(registered[i]) :
                  LET r == registered[i][k]
                  IN  /\ r.handle.by = i
                      /\ \E n \in 1..Len(c.picked) : c.picked[n] = r.handle
                      /\ r.uuid = c.uuid
                      /\ \A j \in Calls \ {i} : r.uuid # calls[j].uuid
            /\ \A k \in 1..Len(c.result.uris) : OwnUri(i, c.result.uris[k])
            /\ \A k \in 1..Len(opened[i]) : OwnUri(i, opened[i][k])
            /\ c.uuid # 0 => \A j \in Calls \ {i} : calls[j].uuid # c.uuid

\* two calls were suspended at their pickers together (showOpenDialog takes its identifier
\* on entry, so the smaller one entered first) and the later call resolved first
C7_Witness ==
    \E i, j \in Calls :
        /\ i # j
        /\ calls[i].uuid < calls[j].uuid
        /\ calls[i].op = "showOpenDialog" /\ calls[i].pc = "awaitPicker"
        /\ calls[j].op = "showOpenDialog" /\ calls[j].pc = "returned"
        /\ registered[j] # <<>>
        /\ calls[j].result.kind = "uris"

\* C8: pickFileFolderAndOpen, pickFolderAndOpen and pickWorkspaceAndOpen with a native
\* scheme always fail with their error, invoke no native picker, register nothing and
\* never call the simplified implementation; options.defaultUri is the default path when
\* it was absent and unchanged otherwise, and pickWorkspaceAndOpen has overwritten
\* options.availableFileSystems.
C8_FolderOperationsFail ==
    \A i \in Calls :
        LET c == calls[i]
        IN  (c.op \in FolderOps /\ Native(c)) =>
              /\ c.pc = "threw"
              /\ c.error = IF c.op = "pickWorkspaceAndOpen" THEN "pickWorkspaceAndOpen"
                                                            ELSE "pickFolderAndOpen"
              /\ c.picker = "none" /\ c.picked = <<>> /\ c.uuid = 0
              /\ registered[i] = <<>> /\ opened[i] = <<>>
              /\ c.simplified = "none"
              /\ c.result = Undefined
              /\ c.defaultUri = IF c.defaultUriIn = "absent"
                                THEN (IF c.op = "pickFileFolderAndOpen" THEN "defaultFilePath"
                                      ELSE IF c.op = "pickFolderAndOpen" THEN "defaultFolderPath"
                                      ELSE "defaultWorkspacePath")
                                ELSE c.defaultUriIn
              /\ c.availableFileSystems =
                    IF c.op = "pickWorkspaceAndOpen" THEN "getWorkspaceAvailableFileSystems"
                                                     ELSE "given"

C8_Witness ==
    \E i, j \in Calls :
        /\ calls[i].op = "pickWorkspaceAndOpen" /\ Native(calls[i])
        /\ calls[i].defaultUriIn = "absent" /\ calls[i].pc = "threw"
        /\ calls[j].op = "pickFileFolderAndOpen" /\ Native(calls[j])
        /\ calls[j].defaultUriIn = "given" /\ calls[j].pc = "threw"

\* C9: when the native picker rejects, the rejection propagates to the caller, no
\* handle is registered, no URI is returned and the opener is not invoked, also in
\* showOpenDialog, which has generated its identifier before the picker is shown.
C9_RejectionLeavesNothing ==
    \A i \in Calls :
        LET c == calls[i]
        IN  c.error = "pickerRejected" =>
              /\ c.pc = "threw"
              /\ c.op \in FileOps
              /\ registered[i] = <<>>
              /\ opened[i] = <<>>
              /\ c.result = Undefined
              /\ c.picked = <<>>

C9_Witness ==
    \E i, j \in Calls :
        /\ calls[i].op = "showOpenDialog"
        /\ calls[i].error = "pickerRejected"
        /\ calls[i].uuid # 0
        /\ calls[j].op = "pickFileAndOpen"
        /\ calls[j].error = "pickerRejected"

\* a filter whose extension list is exactly ['*'] or exactly ['']
WildcardOnly(f) == f.extensions = << <<"*">> >> \/ f.extensions = << <<>> >>

\* an extension that contains '-', '*' or '_'
Unusable(ext) == \E k \in 1..Len(ext) : ext[k] \in {"-", "*", "_"}

RECURSIVE Remaining(_)
\* the filters that are not omitted, in their original order
Remaining(l) ==
    IF l = <<>> THEN <<>>
    ELSE IF WildcardOnly(Head(l)) THEN Remaining(Tail(l))
         ELSE <<Head(l)>> \o Remaining(Tail(l))

\* undefined for no filters; otherwise one accept type per remaining filter, in the
\* original order, described by the filter's name, whose extensions all start with '.'
\* and contain none of '-', '*' and '_'
TypesShape ==
    /\ ~ filters.defined => ~ types.defined
    /\ filters.defined =>
          /\ types.defined
          /\ Len(types.list) = Len(Remaining(filters.list))
          /\ \A k \in 1..Len(types.list) :
                /\ types.list[k].description = Remaining(filters.list)[k].name
                /\ \A n \in 1..Len(types.list[k].accept.extensions) :
                      LET ext == types.list[k].accept.extensions[n]
                      IN  Len(ext) >= 1 /\ ext[1] = "." /\ ~ Unusable(ext)

\* C10 as stated: TypesShape, and every emitted accept type has a non-empty extension
\* list.
C10_TypesWithUsableExtension ==
    typesPc = "return" =>
        /\ TypesShape
        /\ \A k \in 1..Len(types.list) : Len(types.list[k].accept.extensions) >= 1

\* C10 amended: TypesShape, and the extension list of an emitted accept type has one
\* entry per extension of its filter that contains none of '-', '*' and '_': it is empty
\* when the filter has no such extension.
C10_TypesOfRemainingFilters ==
    typesPc = "return" =>
        /\ TypesShape
        /\ \A k \in 1..Len(types.list) :
              LET given == Remaining(filters.list)[k].extensions
              IN  Len(types.list[k].accept.extensions) =
                     Cardinality({n \in 1..Len(given) : ~ Unusable(given[n])})

C10_Witness ==
    /\ typesPc = "return"
    /\ Len(filters.list) = 2
    /\ filters.list[1].extensions = << <<"*">> >>
    /\ filters.list[2].extensions = << <<"t", "s">>, <<"*">> >>
    /\ Len(types.list) = 1
    /\ types.list[1].description = filters.list[2].name
    /\ types.list[1].accept.extensions = << <<".", "t", "s">> >>

====
